---------------------------- MODULE Spec2Model ----------------------------
(***************************************************************************)
(* Clinic queue system: the per-tenant response cache with debounced       *)
(* invalidation and the mutation handlers (src/replit.md, the routes       *)
(* module), the tenant rooms of the WebSocket server (src/server/db.ts)    *)
(* and the auto-complete scheduler (src/server/gcs.ts).                    *)
(*                                                                         *)
(* Strings that the code concatenates or searches (user ids, cache keys,   *)
(* patterns) are sequences of tokens, so that `${userId}:${key}` and       *)
(* key.includes(pattern) are computed, not assumed.  Time is Date.now() in *)
(* milliseconds.  Timers fire at their due time (no event-loop lag).       *)
(***************************************************************************)
EXTENDS Integers, Sequences, FiniteSets, TLC

VARIABLES
    universe,           \* which ids and keys exist: "plain", "collide", "text"
    now,                \* Date.now()
    steps,              \* number of inputs so far: clock advances, cached GET
                        \* requests, direct invalidateCache calls
    apiCache,           \* Map<string, CacheEntry>
    invalidateTimers,   \* Map<string, NodeJS.Timeout>
    timers,             \* timeouts armed in the event loop and not cleared
    db,                 \* storage: per tenant and table, the rows and a version
    mutations,          \* number of committed store writes
    gets,               \* cached GET handlers suspended on their storage await
    muts,               \* mutation handlers suspended on their storage await
    sock,               \* the sockets of the Socket.IO server
    tvJoins,            \* tv:join handlers suspended on resolveByTvIdentifier
    client,             \* the browser page behind each socket: which hook it
                        \* runs, the version of the patients it holds, and
                        \* why it is re-fetching, if it is
    booted,             \* the server has made its startup call of runAutoComplete
    isAutoCompleteRunning,
    runs,               \* executions of runAutoComplete past the guard, not ended
    nextSweepAt,        \* when the setInterval of runAutoComplete fires next
    pat,                \* storage: the patient rows in detail
    written,            \* history: per tenant and key, the latest setCache not
                        \* yet removed by an invalidation, with the version
                        \* the table had when it was written
    pending,            \* history: the (tenant, pattern) pairs with a debounced
                        \* request not yet followed by a clear, and its last call
    destroyed,          \* history: rows removed by a finished destructive mutation
    windows,            \* storage: per tenant and window, its currentPatientId
    statusCalls,        \* PATCH /api/patients/:id/status handlers between their
                        \* awaits, with what each has read so far
    hook,               \* the staff page's query data for the patient lists, the
                        \* events on their way to it, and its list fetches
    event               \* history: what the step just taken did (a response, a
                        \* timer that fired, an emit), {} if nothing to record

clockVars == <<now, steps>>
cacheVars == <<apiCache, invalidateTimers, timers>>
storeVars == <<db, mutations, destroyed>>
reqVars == <<gets, muts>>
wsVars == <<sock, tvJoins, client>>
sweepVars == <<booted, isAutoCompleteRunning, runs, nextSweepAt, pat>>
winVars == <<windows, statusCalls>>
vars == <<universe, now, steps, apiCache, invalidateTimers, timers, db,
          mutations, gets, muts, sock, tvJoins, client, booted,
          isAutoCompleteRunning, runs, nextSweepAt, pat, written, pending,
          destroyed, windows, statusCalls, hook, event>>

---------------------------------------------------------------------------
(* Bounds *)
MaxSteps == 4
MaxMutations == 1
MaxWindows == 2
MaxInflight == 1
MaxBurst == 3
MaxUpdates == 3
MaxReenterAt == 2
MaxHistory == 3
MaxEntities == 1
MaxSockets == 2
MaxSweepTicks == 14
MaxEnterAt == 1

\* null / undefined, one per type
NoUser == <<>>
NoRoom == <<>>
NoData == [owner |-> <<>>, rows |-> {}, ver |-> -1]

---------------------------------------------------------------------------
(* Strings *)

Sep == <<":">>
All == <<"all">>

Includes(s, p) ==
    \E i \in 1..(Len(s) - Len(p) + 1) : SubSeq(s, i, i + Len(p) - 1) = p

MapSet(m, k, v) == [x \in (DOMAIN m) \cup {k} |-> IF x = k THEN v ELSE m[x]]
MapDel(m, S) == [x \in (DOMAIN m) \ S |-> m[x]]
EmptyMap == [x \in {} |-> {}]

---------------------------------------------------------------------------
(* Identifiers.  In the "plain" universe no id or key holds the separator; *)
(* in the "collide" universe `${userId}:${key}` of two tenants coincide.   *)

UA == <<"a">>
UB == <<"b">>
UAB == <<"a", ":", "b">>
KPatients == <<"active-patients">>
KWindows == <<"windows">>
KSettings == <<"settings">>
KTextGroups == <<"active-text-groups">>
KC == <<"c">>
KBC == <<"b", ":", "c">>

Users == IF universe = "collide" THEN {UA, UAB} ELSE {UA, UB}
Keys == IF universe = "plain" THEN {KPatients, KWindows, KSettings}
        ELSE IF universe = "text" THEN {KTextGroups}
        ELSE {KC, KBC}
NoPattern == <<>>
Patterns == IF universe = "plain" THEN {NoPattern, KWindows}
            ELSE IF universe = "text" THEN {NoPattern}
            ELSE {NoPattern, KC, KBC}

Resources == {"patients", "windows", "settings", "themes", "text-groups"}

\* the storage table a cached endpoint reads
ResourceOf(key) ==
    IF key = KWindows THEN "windows"
    ELSE IF key = KSettings THEN "settings"
    ELSE IF key = KTextGroups THEN "text-groups"
    ELSE "patients"

---------------------------------------------------------------------------
(* Tenant cache *)

CACHE_TTL_SHORT == 60000
CACHE_TTL_LONG == 300000
INVALIDATE_DEBOUNCE_MS == 300
CLEANUP_INTERVAL_MS == 10000

\* the ttl argument each cached GET handler passes to getCached
TtlOf(key) == IF key \in {KSettings, KTextGroups} THEN CACHE_TTL_LONG ELSE CACHE_TTL_SHORT

CacheKey(userId, key) == userId \o Sep \o key

\* variant: a hit that does not compare the owner of the entry
CacheHitAnyOwner(cache, key, userId, ttl, t) ==
    LET cacheKey == CacheKey(userId, key) IN
    /\ cacheKey \in DOMAIN cache
    /\ t - cache[cacheKey].timestamp < ttl

\* variant: an entry is still served at the instant its age equals the ttl
CacheHitInclusive(cache, key, userId, ttl, t) ==
    LET cacheKey == CacheKey(userId, key) IN
    /\ cacheKey \in DOMAIN cache
    /\ t - cache[cacheKey].timestamp <= ttl
    /\ cache[cacheKey].userId = userId

CacheHit(cache, key, userId, ttl, t) ==
    LET cacheKey == CacheKey(userId, key) IN
    /\ cacheKey \in DOMAIN cache
    /\ t - cache[cacheKey].timestamp < ttl
    /\ cache[cacheKey].userId = userId

\* the value getCached returns (NoData is null)
getCached(cache, key, userId, ttl, t) ==
    IF CacheHit(cache, key, userId, ttl, t)
    THEN cache[CacheKey(userId, key)].data
    ELSE NoData

\* the cache getCached leaves behind: an entry that did not hit is deleted
getCachedCleanup(cache, key, userId, ttl, t) ==
    IF CacheHit(cache, key, userId, ttl, t)
    THEN cache
    ELSE MapDel(cache, {CacheKey(userId, key)})

setCache(cache, key, userId, data, t) ==
    MapSet(cache, CacheKey(userId, key),
           [data |-> data, timestamp |-> t, userId |-> userId])

---------------------------------------------------------------------------
(* Debounced invalidator *)

TimerKey(userId, pattern) ==
    userId \o Sep \o (IF pattern = NoPattern THEN All ELSE pattern)

\* variant: a call without a pattern matches no entry
doInvalidatePatternOnly(cache, userId, pattern) ==
    MapDel(cache, {key \in DOMAIN cache :
                      /\ cache[key].userId = userId
                      /\ pattern # NoPattern
                      /\ Includes(key, pattern)})

doInvalidate(cache, userId, pattern) ==
    MapDel(cache, {key \in DOMAIN cache :
                      /\ cache[key].userId = userId
                      /\ (pattern = NoPattern \/ Includes(key, pattern))})

\* the keys of the cache with the owner each entry records
Entries(cache) == {[key |-> k, userId |-> cache[k].userId] : k \in DOMAIN cache}

\* variant: the armed timer is left running
ClearTimeoutNoop(armed, old) == armed

\* clearTimeout(invalidateTimers.get(timerKey)): old is {} or the one handle
ClearTimeout(armed, old) == armed \ old

Min(a, b) == IF a < b THEN a ELSE b

\* st is [apiCache, invalidateTimers, timers]; the result is st after the call.
\* A handle records the call it was armed by (setAt) and, as bookkeeping, how
\* many non-immediate calls for the same (userId, pattern) it stands for.
invalidateCache(st, userId, pattern, immediate, t) ==
    LET timerKey == TimerKey(userId, pattern)
        old == IF timerKey \in DOMAIN st.invalidateTimers
               THEN {st.invalidateTimers[timerKey]} ELSE {}
        armed == ClearTimeout(st.timers, old)
        burst == {h \in old \cap st.timers :
                     h.userId = userId /\ h.pattern = pattern}
        count == IF burst = {} THEN 1
                 ELSE Min((CHOOSE h \in burst : TRUE).calls + 1, MaxBurst)
        timer == [key |-> timerKey, userId |-> userId, pattern |-> pattern,
                  deadline |-> t + INVALIDATE_DEBOUNCE_MS, setAt |-> t,
                  calls |-> count]
    IN  IF immediate
        THEN [apiCache |-> doInvalidate(st.apiCache, userId, pattern),
              invalidateTimers |-> MapDel(st.invalidateTimers, {timerKey}),
              timers |-> armed]
        ELSE [apiCache |-> st.apiCache,
              invalidateTimers |-> MapSet(st.invalidateTimers, timerKey, timer),
              timers |-> armed \cup {timer}]

CacheState == [apiCache |-> apiCache, invalidateTimers |-> invalidateTimers,
               timers |-> timers]

SetCacheState(st) ==
    /\ apiCache' = st.apiCache
    /\ invalidateTimers' = st.invalidateTimers
    /\ timers' = st.timers

\* history: an executed doInvalidate(userId, pattern) ends the validity of the
\* writes it removed
Unwrite(w, userId, pattern) ==
    [u \in DOMAIN w |-> [k \in DOMAIN w[u] |->
        IF u = userId /\ (pattern = NoPattern \/ Includes(CacheKey(u, k), pattern))
        THEN {} ELSE w[u][k]]]

\* history: a debounced request for (userId, pattern) was made at t
Request(pd, userId, pattern, t) ==
    {q \in pd : ~(q.userId = userId /\ q.pattern = pattern)}
        \cup {[userId |-> userId, pattern |-> pattern, lastCall |-> t]}

\* history: a clear for (userId, pattern) was executed
Settle(pd, userId, pattern) ==
    {q \in pd : ~(q.userId = userId /\ q.pattern = pattern)}

\* history: the time of the last debounced request, -1 if none is outstanding
LastCall(pd, userId, pattern) ==
    IF \E q \in pd : q.userId = userId /\ q.pattern = pattern
    THEN (CHOOSE q \in pd : q.userId = userId /\ q.pattern = pattern).lastCall
    ELSE -1

\* A debounce timeout comes due: its doInvalidate closure runs.
TimerFire(h) ==
    /\ h \in timers
    /\ now = h.deadline
    /\ apiCache' = doInvalidate(apiCache, h.userId, h.pattern)
    /\ invalidateTimers' = MapDel(invalidateTimers, {h.key})
    /\ timers' = timers \ {h}
    /\ written' = Unwrite(written, h.userId, h.pattern)
    /\ pending' = Settle(pending, h.userId, h.pattern)
    /\ event' = {[type |-> "fire", userId |-> h.userId, pattern |-> h.pattern,
                  at |-> now, calls |-> h.calls,
                  lastCall |-> LastCall(pending, h.userId, h.pattern),
                  before |-> Entries(apiCache)]}
    /\ UNCHANGED <<universe, hook, winVars, sweepVars, clockVars, storeVars, reqVars, wsVars>>

\* invalidateCache called on its own with any arguments
Invalidate(userId, pattern, immediate) ==
    /\ SetCacheState(invalidateCache(CacheState, userId, pattern, immediate, now))
    /\ written' = IF immediate THEN Unwrite(written, userId, pattern) ELSE written
    /\ pending' = IF immediate THEN Settle(pending, userId, pattern)
                  ELSE Request(pending, userId, pattern, now)
    /\ event' = IF immediate
                THEN {[type |-> "immediate", userId |-> userId, pattern |-> pattern,
                       cancelled |-> LastCall(pending, userId, pattern) >= 0,
                       removed |-> Cardinality(DOMAIN apiCache) -
                           Cardinality(DOMAIN doInvalidate(apiCache, userId, pattern)),
                       before |-> Entries(apiCache)]}
                ELSE {}
    /\ UNCHANGED <<universe, hook, winVars, sweepVars, now, storeVars, reqVars, wsVars>>

\* a caller of invalidateCache, within the budget of steps
InvalidateCall(userId, pattern, immediate) ==
    /\ steps < MaxSteps
    /\ steps' = steps + 1
    /\ Invalidate(userId, pattern, immediate)

\* d ms pass with no timer due before; the times that the timers and the
\* outstanding requests hold are kept relative to the present, so that a run
\* of any length stays within finitely many states
Shift(h, d) == [h EXCEPT !.deadline = @ - d, !.setAt = @ - d]

Elapse(d) ==
    /\ \A h \in timers : h.deadline - now >= d
    /\ timers # {}
    /\ timers' = {Shift(h, d) : h \in timers}
    /\ invalidateTimers' = [k \in DOMAIN invalidateTimers |->
                               Shift(invalidateTimers[k], d)]
    /\ pending' = {[r EXCEPT !.lastCall = @ - d] : r \in pending}
    /\ event' = {}
    /\ UNCHANGED <<universe, hook, winVars, sweepVars, clockVars, apiCache, storeVars,
                   reqVars, wsVars, written>>

\* a non-immediate call of invalidateCache, any number of times; a timer that
\* is due runs its callback before the next call is handled
DebouncedCall(userId, pattern) ==
    /\ \A h \in timers : h.deadline > now
    /\ Invalidate(userId, pattern, FALSE)
    /\ UNCHANGED steps

\* setInterval(..., 10000): evict entries older than the longest TTL.  A
\* skipped firing changes no read: such an entry is expired for every ttl.
PeriodicCleanup ==
    /\ now > 0
    /\ now % CLEANUP_INTERVAL_MS = 0
    /\ apiCache' = MapDel(apiCache, {key \in DOMAIN apiCache :
                                        now - apiCache[key].timestamp > CACHE_TTL_LONG})
    /\ event' = {}
    /\ UNCHANGED <<universe, hook, winVars, sweepVars, clockVars, invalidateTimers, timers, storeVars,
                   reqVars, wsVars, written, pending>>

(* Clock: Date.now() advances; an armed timeout fires when it is due. *)
\* steps on the scale of the debounce window, and on the scale of the TTLs
ShortDeltas == {100, 300}
LongDeltas == {30000, 31000, 310000}

Due == {h.deadline : h \in timers}

Tick(d) ==
    /\ steps < MaxSteps
    /\ \A dl \in Due : dl > now
    /\ now' = IF \E dl \in Due : dl < now + d
              THEN CHOOSE dl \in Due : \A e \in Due : dl <= e
              ELSE now + d
    /\ steps' = steps + 1
    /\ event' = {}
    /\ UNCHANGED <<universe, hook, winVars, sweepVars, cacheVars, storeVars, reqVars, wsVars, written, pending>>

---------------------------------------------------------------------------
(* Socket.IO rooms *)

Sockets == 1..MaxSockets

ClinicRoom(userId) == <<"clinic">> \o Sep \o userId

\* a socket before its connection (and after its disconnection)
Closed == [connected |-> FALSE, userId |-> NoUser, clinicRoom |-> NoRoom,
           rooms |-> {}]

\* the sockets io.to(room).emit reaches
RoomMembers(room) == {s \in Sockets : sock[s].connected /\ room \in sock[s].rooms}

\* the sockets io.emit reaches
AllConnected == {s \in Sockets : sock[s].connected}

\* globalIo.to(`clinic:${userId}`).emit / globalIo.emit / no emit at all
Recipients(emit, userId) ==
    IF emit = "room" THEN RoomMembers(ClinicRoom(userId))
    ELSE IF emit = "all" THEN AllConnected
    ELSE {}

\* a page that was never opened
NoPage == [kind |-> "none", held |-> 0, fetching |-> "no"]

\* variant: a connection without a session is put into a tenant's room
ConnectionJoinsAny(session) ==
    LET u == IF session # NoUser THEN session ELSE CHOOSE x \in Users : TRUE IN
    [connected |-> TRUE, userId |-> session,
     clinicRoom |-> ClinicRoom(u), rooms |-> {ClinicRoom(u)}]

\* the socket of a new connection
Connection(session) ==
    IF session # NoUser
    THEN [connected |-> TRUE, userId |-> session,
          clinicRoom |-> ClinicRoom(session),
          rooms |-> {ClinicRoom(session)}]
    ELSE [connected |-> TRUE, userId |-> NoUser,
          clinicRoom |-> NoRoom, rooms |-> {}]

\* io.use + io.on("connection"): session is req.session.userId or NoUser
Connect(s, session) ==
    /\ ~sock[s].connected
    /\ sock' = [sock EXCEPT ![s] = Connection(session)]
    /\ event' = {}
    /\ UNCHANGED <<universe, hook, winVars, sweepVars, clockVars, cacheVars, storeVars, reqVars, tvJoins,
                   client, written, pending>>

\* socket.on("disconnect"): the socket leaves every room
Disconnect(s) ==
    /\ sock[s].connected
    /\ sock' = [sock EXCEPT ![s] = Closed]
    /\ tvJoins' = {j \in tvJoins : j.socket # s}
    /\ event' = {}
    /\ UNCHANGED <<universe, hook, winVars, sweepVars, clockVars, cacheVars, storeVars, reqVars, client,
                   written, pending>>

\* socket.on("patient:call" | "patient:update" | "queue:update")
ClientEvents == {"patient:call", "patient:update", "queue:update"}

ClientEvent(s, name) ==
    /\ sock[s].connected
    /\ event' =
         IF sock[s].userId = NoUser \/ sock[s].clinicRoom = NoRoom
         THEN {[type |-> "client", name |-> name, auth |-> sock[s].userId,
                error |-> TRUE, room |-> NoRoom, recipients |-> {}]}
         ELSE {[type |-> "client", name |-> name, auth |-> sock[s].userId,
                error |-> FALSE, room |-> sock[s].clinicRoom,
                recipients |-> RoomMembers(sock[s].clinicRoom)]}
    /\ UNCHANGED <<universe, hook, winVars, sweepVars, clockVars, cacheVars, storeVars, reqVars, wsVars,
                   written, pending>>

\* TV tokens: each tenant has one; NoToken is a missing token, BadToken one
\* that resolves to nobody
TvToken(userId) == <<"tv">> \o Sep \o userId
NoToken == <<>>
BadToken == <<"bad">>
Tokens == {TvToken(u) : u \in Users} \cup {NoToken, BadToken}

resolveByTvIdentifier(token) ==
    IF \E u \in Users : TvToken(u) = token
    THEN CHOOSE u \in Users : TvToken(u) = token
    ELSE NoUser

\* socket.on("tv:join") up to its await
TvJoinStart(s, token) ==
    /\ sock[s].connected
    /\ Cardinality(tvJoins) < MaxInflight
    /\ IF token = NoToken
       THEN tvJoins' = tvJoins
       ELSE tvJoins' = tvJoins \cup {[socket |-> s, token |-> token]}
    /\ event' = {}
    /\ UNCHANGED <<universe, hook, winVars, sweepVars, clockVars, cacheVars, storeVars, reqVars, sock,
                   client, written, pending>>

\* socket.on("tv:join") after its await
TvJoinResolve(j) ==
    /\ j \in tvJoins
    /\ tvJoins' = tvJoins \ {j}
    /\ LET user == resolveByTvIdentifier(j.token) IN
       IF user = NoUser
       THEN sock' = sock
       ELSE sock' = [sock EXCEPT ![j.socket].rooms = @ \cup {ClinicRoom(user)},
                                 ![j.socket].clinicRoom = ClinicRoom(user)]
    /\ event' = {}
    /\ UNCHANGED <<universe, hook, winVars, sweepVars, clockVars, cacheVars, storeVars, reqVars, client,
                   written, pending>>

---------------------------------------------------------------------------
(* Browser pages.  The staff pages run the useWebSocket hook with the      *)
(* session of the tenant; the TV display runs its own socket effect with   *)
(* the tenant's token.  Both hold the patients in a query that is          *)
(* re-fetched on request and by its refetchInterval.                       *)

PageKinds == {"staff", "tv"}

\* the tenant whose pages are followed, and the socket of its page of each
\* kind: one staff page and one TV display
PageUser == UA
PageSocket(kind) == IF kind = "staff" THEN 1 ELSE 2

\* the connect handler of the hook calls queryClient.refetchQueries; the TV
\* display's connect handler only emits tv:join
RefetchOnConnect(kind) == kind = "staff"

\* variant: refetchInterval: false
refetchIntervalOff(kind) == 0

\* refetchInterval of the query that holds the patients
refetchInterval(kind) == IF kind = "tv" THEN 30000 ELSE 120000

\* a re-fetch is requested; one already requested keeps its cause
Refetch(page, cause) ==
    [page EXCEPT !.fetching = IF @ = "no" THEN cause ELSE @]

\* the socket of a page connects, or reconnects, and socket.on('connect') runs
PageConnect(s, kind) ==
    /\ steps < MaxSteps
    /\ steps' = steps + 1
    /\ ~sock[s].connected
    /\ s = PageSocket(kind)
    /\ sock' = [sock EXCEPT ![s] =
                  Connection(IF kind = "staff" THEN PageUser ELSE NoUser)]
    /\ tvJoins' = IF kind = "tv"
                  THEN tvJoins \cup {[socket |-> s, token |-> TvToken(PageUser)]}
                  ELSE tvJoins
    /\ client' = [client EXCEPT ![s] =
                    IF RefetchOnConnect(kind)
                    THEN Refetch([@ EXCEPT !.kind = kind], "connect")
                    ELSE [@ EXCEPT !.kind = kind]]
    /\ event' = {[type |-> "connect", socket |-> s, kind |-> kind,
                  refetch |-> RefetchOnConnect(kind),
                  behind |-> client[s].held < db[PageUser]["patients"].ver]}
    /\ UNCHANGED <<universe, hook, winVars, sweepVars, now, cacheVars, storeVars, reqVars,
                   written, pending>>

\* an event the server has just emitted arrives at a connected page, whose
\* handler re-fetches the patients; an event is delivered now or never
PageNotified(s) ==
    /\ \E e \in event : e.type = "mutation" /\ s \in e.recipients
    /\ sock[s].connected
    /\ client[s].kind # "none"
    /\ client' = [client EXCEPT ![s] = Refetch(@, "event")]
    /\ event' = {}
    /\ UNCHANGED <<universe, hook, winVars, sweepVars, clockVars, cacheVars, storeVars, reqVars,
                   sock, tvJoins, written, pending>>

\* the refetchInterval of the query elapses
PagePoll(s) ==
    /\ client[s].kind # "none"
    /\ refetchInterval(client[s].kind) > 0
    /\ client[s].fetching = "no"
    /\ client' = [client EXCEPT ![s] = Refetch(@, "poll")]
    /\ event' = {}
    /\ UNCHANGED <<universe, hook, winVars, sweepVars, clockVars, cacheVars, storeVars, reqVars,
                   sock, tvJoins, written, pending>>

\* the re-fetch is answered with the patients as they are in storage
PageFetch(s) ==
    /\ client[s].fetching # "no"
    /\ client' = [client EXCEPT ![s].held = db[PageUser]["patients"].ver,
                                ![s].fetching = "no"]
    /\ event' = {[type |-> "fetch", socket |-> s, kind |-> client[s].kind,
                  cause |-> client[s].fetching,
                  from |-> client[s].held,
                  to |-> db[PageUser]["patients"].ver,
                  connected |-> sock[s].connected]}
    /\ UNCHANGED <<universe, hook, winVars, sweepVars, clockVars, cacheVars, storeVars, reqVars,
                   sock, tvJoins, written, pending>>

---------------------------------------------------------------------------
(* Storage: per tenant and table, the ids of the rows and a version that   *)
(* every committed write advances.                                         *)

Entities == 1..MaxEntities

\* the payload a cached endpoint builds from its storage read
Snapshot(userId, key) ==
    [owner |-> userId,
     rows |-> db[userId][ResourceOf(key)].rows,
     ver |-> db[userId][ResourceOf(key)].ver]

---------------------------------------------------------------------------
(* Cached GET handlers: /api/patients/active, /api/windows, /api/settings *)

\* getCached, and on a miss the call of storage; cause tells what made the
\* client send the request
GetRequest(userId, key, cause) ==
    /\ steps < MaxSteps
    /\ steps' = steps + 1
    /\ Cardinality(gets) < MaxInflight
    /\ LET ttl == TtlOf(key)
           cached == getCached(apiCache, key, userId, ttl, now) IN
       /\ apiCache' = getCachedCleanup(apiCache, key, userId, ttl, now)
       /\ event' = {[type |-> "read", userId |-> userId, key |-> key,
                     cause |-> cause,
                     data |-> cached, hit |-> cached # NoData,
                     stale |-> cached.rows \cap
                                 destroyed[userId][ResourceOf(key)] # {}]}
       /\ gets' = IF cached # NoData THEN gets
                  ELSE gets \cup {[userId |-> userId, key |-> key,
                                   pc |-> "await", data |-> NoData]}
    /\ UNCHANGED <<universe, hook, winVars, sweepVars, now, invalidateTimers, timers, storeVars, muts,
                   wsVars, written, pending>>

GetStart(userId, key) == GetRequest(userId, key, "request")

\* a page that has just received the event of a mutation re-fetches the
\* patients at once: queryClient.refetchQueries in the event handler
NotifiedGet(s) ==
    \E e \in event :
        /\ e.type = "mutation"
        /\ s \in e.recipients
        /\ GetRequest(e.userId, KPatients, "notified")

\* storage answers the read
GetStorage(g) ==
    /\ g \in gets
    /\ g.pc = "await"
    /\ gets' = (gets \ {g}) \cup {[g EXCEPT !.pc = "set",
                                          !.data = Snapshot(g.userId, g.key)]}
    /\ event' = {}
    /\ UNCHANGED <<universe, hook, winVars, sweepVars, clockVars, cacheVars, storeVars, muts, wsVars,
                   written, pending>>

\* setCache and res.json
GetFinish(g) ==
    /\ g \in gets
    /\ g.pc = "set"
    /\ apiCache' = setCache(apiCache, g.key, g.userId, g.data, now)
    /\ written' = [written EXCEPT ![g.userId][g.key] =
                      {[data |-> g.data, at |-> now,
                        seq |-> db[g.userId][ResourceOf(g.key)].ver]}]
    /\ gets' = gets \ {g}
    /\ event' = {}
    /\ UNCHANGED <<universe, hook, winVars, sweepVars, clockVars, invalidateTimers, timers, storeVars, muts,
                   wsVars, pending>>

---------------------------------------------------------------------------
(* Mutation handlers.  Each route is what its handler does after storage   *)
(* reported success: how it calls invalidateCache and how it emits.        *)

\* variant: every status update bypasses the debounce
isStatusTransitionAlways(status) == TRUE

\* PATCH /api/patients/:id/status: the target statuses whose invalidation
\* is immediate
isStatusTransition(status) == status \in {"completed", "requeue", "dispensary"}

StatusInvalidate(status) ==
    IF isStatusTransition(status) THEN "immediate" ELSE "debounced"

Routes == {
    [name |-> "POST /api/patients", resource |-> "patients", kind |-> "create",
     invalidate |-> "debounced", emit |-> "room"],
    [name |-> "PATCH /api/patients/:id/status called", resource |-> "patients",
     kind |-> "update", invalidate |-> StatusInvalidate("called"),
     emit |-> "room"],
    [name |-> "PATCH /api/patients/:id/status completed", resource |-> "patients",
     kind |-> "update", invalidate |-> StatusInvalidate("completed"),
     emit |-> "room"],
    [name |-> "PATCH /api/patients/:id/priority", resource |-> "patients",
     kind |-> "update", invalidate |-> "debounced", emit |-> "room"],
    [name |-> "DELETE /api/patients/:id", resource |-> "patients", kind |-> "delete",
     invalidate |-> "immediate", emit |-> "room"],
    [name |-> "POST /api/patients/reset-queue", resource |-> "patients",
     kind |-> "clear", invalidate |-> "immediate", emit |-> "room"],
    [name |-> "POST /api/patients/clear-completed", resource |-> "patients",
     kind |-> "clear", invalidate |-> "immediate", emit |-> "none"],
    [name |-> "POST /api/windows", resource |-> "windows", kind |-> "create",
     invalidate |-> "debounced", emit |-> "room"],
    [name |-> "PUT /api/windows/:id", resource |-> "windows", kind |-> "update",
     invalidate |-> "debounced", emit |-> "room"],
    [name |-> "DELETE /api/windows/:id", resource |-> "windows", kind |-> "delete",
     invalidate |-> "immediate", emit |-> "none"],
    [name |-> "PATCH /api/windows/:id/status", resource |-> "windows",
     kind |-> "update", invalidate |-> "debounced", emit |-> "none"],
    [name |-> "PATCH /api/windows/:id/patient", resource |-> "windows",
     kind |-> "update", invalidate |-> "debounced", emit |-> "room"],
    [name |-> "PUT /api/settings/:key", resource |-> "settings", kind |-> "upsert",
     invalidate |-> "debounced", emit |-> "all"],
    [name |-> "DELETE /api/settings/:key", resource |-> "settings", kind |-> "delete",
     invalidate |-> "immediate", emit |-> "none"],
    [name |-> "PATCH /api/themes/:id", resource |-> "themes", kind |-> "update",
     invalidate |-> "debounced", emit |-> "all"],
    [name |-> "PATCH /api/themes/:id/activate", resource |-> "themes",
     kind |-> "update", invalidate |-> "debounced", emit |-> "all"],
    [name |-> "DELETE /api/themes/:id", resource |-> "themes", kind |-> "delete",
     invalidate |-> "immediate", emit |-> "none"],
    [name |-> "PUT /api/text-groups/:id", resource |-> "text-groups",
     kind |-> "update", invalidate |-> "none", emit |-> "all"],
    [name |-> "DELETE /api/text-groups/:id", resource |-> "text-groups",
     kind |-> "delete", invalidate |-> "none", emit |-> "none"] }

\* storage reports success: the row to update or delete exists, the row to
\* create does not
Succeeds(rows, kind, e) ==
    IF kind = "create" THEN e \notin rows
    ELSE IF kind \in {"update", "delete"} THEN e \in rows
    ELSE TRUE

RowsAfter(rows, kind, e) ==
    IF kind \in {"create", "upsert"} THEN rows \cup {e}
    ELSE IF kind = "delete" THEN rows \ {e}
    ELSE IF kind = "clear" THEN {}
    ELSE rows

\* the number of events a handler emits
EventCount(emit) == IF emit = "none" THEN 0 ELSE 1

\* the handler's awaited storage write commits; limit bounds the number of
\* store writes of a run
CommitWithin(limit, userId, r, e) ==
    /\ mutations < limit
    /\ Cardinality(muts) < MaxInflight
    /\ LET t == db[userId][r.resource]
           after == RowsAfter(t.rows, r.kind, e) IN
       /\ Succeeds(t.rows, r.kind, e)
       /\ db' = [db EXCEPT ![userId][r.resource] =
                    [rows |-> after, ver |-> t.ver + 1]]
       /\ destroyed' = [destroyed EXCEPT ![userId][r.resource] = @ \ after]
       /\ muts' = muts \cup {[userId |-> userId, route |-> r,
                              removed |-> t.rows \ after]}
    /\ mutations' = mutations + 1
    /\ event' = {}
    /\ UNCHANGED <<universe, hook, winVars, sweepVars, clockVars, cacheVars, gets, wsVars, written, pending>>

MutCommit(userId, r, e) == CommitWithin(MaxMutations, userId, r, e)

\* the status of the response written by the handler's catch block
CatchStatus(r) ==
    IF r.name \in {"POST /api/patients", "PATCH /api/themes/:id"} THEN 400 ELSE 500

\* the status the handler answers to a payload it rejects; 0: the handler
\* checks nothing of the payload itself
ValidationStatus(r) ==
    IF r.name \in {"POST /api/patients", "PATCH /api/themes/:id"}
    THEN CatchStatus(r)
    ELSE IF r.name \in {"POST /api/windows", "PUT /api/windows/:id",
                        "PUT /api/settings/:key"}
    THEN 400
    ELSE 0

\* the status the handler answers when storage finds no row of the tenant
NotFoundStatus(r) == IF r.name = "DELETE /api/windows/:id" THEN 400 ELSE 404

\* ids a request can name: those of the rows and one that no row has
Ids == 1..(MaxEntities + 1)

\* a request that ends without a store write: the payload is rejected, the
\* row is not found, or the awaited storage call throws
MutReject(userId, r, e, cause) ==
    /\ muts = {}
    /\ \/ cause = "invalid" /\ ValidationStatus(r) # 0
       \/ /\ cause = "notfound"
          /\ r.kind \in {"update", "delete"}
          /\ e \notin db[userId][r.resource].rows
       \/ cause = "storage"
    /\ event' = {[type |-> "response", userId |-> userId, route |-> r.name,
                  cause |-> cause,
                  status |-> IF cause = "invalid" THEN ValidationStatus(r)
                             ELSE IF cause = "notfound" THEN NotFoundStatus(r)
                             ELSE CatchStatus(r)]}
    /\ UNCHANGED <<universe, hook, winVars, sweepVars, clockVars, cacheVars, storeVars, reqVars,
                   wsVars, written, pending>>

\* the rest of the handler: invalidateCache, the emit, the response; the
\* emit returns (emitOk) or throws into the handler's catch block
MutFinish(m, emitOk) ==
    /\ m \in muts
    /\ emitOk \/ m.route.emit # "none"
    /\ muts' = muts \ {m}
    /\ LET r == m.route IN
       /\ IF r.invalidate = "none"
          THEN UNCHANGED cacheVars
          ELSE SetCacheState(invalidateCache(CacheState, m.userId, NoPattern,
                                             r.invalidate = "immediate", now))
       /\ written' = IF r.invalidate = "immediate"
                     THEN Unwrite(written, m.userId, NoPattern) ELSE written
       /\ pending' = IF r.invalidate = "immediate"
                     THEN Settle(pending, m.userId, NoPattern)
                     ELSE IF r.invalidate = "debounced"
                     THEN Request(pending, m.userId, NoPattern, now)
                     ELSE pending
       /\ destroyed' = IF r.kind \in {"delete", "clear"}
                       THEN [destroyed EXCEPT ![m.userId][r.resource] =
                                @ \cup (m.removed \ db[m.userId][r.resource].rows)]
                       ELSE destroyed
       /\ event' = {[type |-> "mutation", userId |-> m.userId, route |-> r.name,
                     pattern |-> NoPattern, invalidate |-> r.invalidate,
                     emit |-> r.emit,
                     events |-> IF emitOk THEN EventCount(r.emit) ELSE 0,
                     recipients |-> IF emitOk THEN Recipients(r.emit, m.userId)
                                    ELSE {},
                     members |-> RoomMembers(ClinicRoom(m.userId)),
                     cause |-> IF emitOk THEN "ok" ELSE "emit",
                     status |-> IF emitOk THEN 200 ELSE CatchStatus(r)]}
    /\ UNCHANGED <<universe, hook, winVars, sweepVars, clockVars, db, mutations, gets, wsVars>>

---------------------------------------------------------------------------
(* Auto-complete: the scheduler of the server and the endpoint             *)
(* POST /api/patients/auto-complete-dispensary                             *)

AUTO_COMPLETE_INTERVAL_MS == 300000
SIXTY_MINUTES_MS == 3600000

\* the first trackingHistory event with action 'dispensary', 0 if none
DispensaryEvent(trackingHistory) ==
    IF \E i \in 1..Len(trackingHistory) : trackingHistory[i].action = "dispensary"
    THEN CHOOSE i \in 1..Len(trackingHistory) :
            /\ trackingHistory[i].action = "dispensary"
            /\ \A j \in 1..(i - 1) : trackingHistory[j].action # "dispensary"
    ELSE 0

\* variant: completed at the instant the age equals the threshold
IsOverdueInclusive(patient, t) ==
    /\ patient.readyForDispensary
    /\ patient.status # "completed"
    /\ DispensaryEvent(patient.trackingHistory) # 0
    /\ t - patient.trackingHistory[DispensaryEvent(patient.trackingHistory)].timestamp
           >= SIXTY_MINUTES_MS

\* the patient is to be auto-completed at time t
IsOverdue(patient, t) ==
    /\ patient.readyForDispensary
    /\ patient.status # "completed"
    /\ DispensaryEvent(patient.trackingHistory) # 0
    /\ t - patient.trackingHistory[DispensaryEvent(patient.trackingHistory)].timestamp
           > SIXTY_MINUTES_MS

\* a patient row that waits
Waiting == [status |-> "waiting", readyForDispensary |-> FALSE,
            trackingHistory |-> <<>>]

\* storage.updatePatientStatus(id, status, userId, ...)
updatePatientStatus(patient, status, t) ==
    [status |-> status,
     readyForDispensary |-> patient.readyForDispensary \/ status = "dispensary",
     trackingHistory |-> Append(patient.trackingHistory,
                                [action |-> status, timestamp |-> t])]

\* a window with no patient at it
NoPatient == 0
WindowIds == 1..MaxWindows

\* windows.find(w => w.currentPatientId === id) over storage.getWindows: the
\* first window that holds the patient, 0 if none does
FindWindow(ws, id) ==
    IF \E w \in DOMAIN ws : ws[w] = id
    THEN CHOOSE w \in DOMAIN ws :
            ws[w] = id /\ \A v \in DOMAIN ws : ws[v] = id => w <= v
    ELSE 0

\* storage.updateWindowPatient: the window's reference is set to what it is given
updateWindowPatient(ws, w, patientId) == [ws EXCEPT ![w] = patientId]

\* the window clearing of a handler whose awaits nothing interleaves with:
\* for each patient, the window that find returns loses its reference
ClearWindows(ws, ids) ==
    [w \in DOMAIN ws |->
        IF ws[w] \in ids /\ w = FindWindow(ws, ws[w]) THEN NoPatient ELSE ws[w]]

\* the rows after every overdue patient among them was completed at time t
CompleteOverdue(rows, t) ==
    [e \in DOMAIN rows |->
        IF IsOverdue(rows[e], t) THEN updatePatientStatus(rows[e], "completed", t)
        ELSE rows[e]]

Overdue(rows, t) == {e \in DOMAIN rows : IsOverdue(rows[e], t)}

\* storage.autoCompleteOldDispensaryPatients(): the table after the call
autoCompleteOldDispensaryPatients(table, t) ==
    [u \in DOMAIN table |-> CompleteOverdue(table[u], t)]

\* a committed write of patient rows advances the version of the table
BumpPatients(tenants) ==
    [u \in DOMAIN db |->
        IF u \in tenants
        THEN [db[u] EXCEPT !["patients"].ver = @ + 1]
        ELSE db[u]]

\* PATCH /api/patients/:id/status with status 'dispensary', by the staff
EnterDispensary(userId, e) ==
    /\ booted
    /\ now <= MaxEnterAt * AUTO_COMPLETE_INTERVAL_MS
    /\ pat[userId][e].status = "waiting"
    /\ windows' = [windows EXCEPT ![userId] = ClearWindows(@, {e})]
    /\ pat' = [pat EXCEPT ![userId][e] = updatePatientStatus(@, "dispensary", now)]
    /\ db' = BumpPatients({userId})
    /\ SetCacheState(invalidateCache(CacheState, userId, NoPattern, TRUE, now))
    /\ written' = Unwrite(written, userId, NoPattern)
    /\ pending' = Settle(pending, userId, NoPattern)
    /\ event' = {}
    /\ UNCHANGED <<universe, hook, statusCalls, clockVars, mutations, destroyed, reqVars, wsVars,
                   booted, isAutoCompleteRunning, runs, nextSweepAt>>

\* PATCH /api/patients/:id/status of a patient that is not completed, to
\* 'dispensary' or 'requeue', by the staff during the first minutes
StatusUpdate(userId, e, status) ==
    /\ booted
    /\ now <= MaxReenterAt * AUTO_COMPLETE_INTERVAL_MS
    /\ Len(pat[userId][e].trackingHistory) < MaxHistory
    /\ pat[userId][e].status \notin {"completed", status}
    /\ status = "requeue" => pat[userId][e].status = "dispensary"
    /\ windows' = [windows EXCEPT ![userId] = ClearWindows(@, {e})]
    /\ pat' = [pat EXCEPT ![userId][e] = updatePatientStatus(@, status, now)]
    /\ db' = BumpPatients({userId})
    /\ SetCacheState(invalidateCache(CacheState, userId, NoPattern,
                                     isStatusTransition(status), now))
    /\ written' = Unwrite(written, userId, NoPattern)
    /\ pending' = Settle(pending, userId, NoPattern)
    /\ event' = {}
    /\ UNCHANGED <<universe, hook, statusCalls, clockVars, mutations, destroyed, reqVars, wsVars,
                   booted, isAutoCompleteRunning, runs, nextSweepAt>>

\* the query keys of the patient lists that the hook's handlers write
ListKeys == {"/api/patients", "/api/patients/active"}

\* the data of a query that has not been fetched yet
NoList == <<NoPatient>>

\* the ids of a set of rows in the order storage returns them
RowList(S) ==
    CHOOSE q \in [1..Cardinality(S) -> S] :
        \A i, j \in 1..Cardinality(S) : i < j => q[i] < q[j]

\* what GET /api/patients and GET /api/patients/active answer from storage
ListBody(k, userId) ==
    RowList({e \in db[userId]["patients"].rows :
                k = "/api/patients/active" => pat[userId][e].status # "completed"})

\* globalIo.to(`clinic:${userId}`).emit(...): the event is on its way to the
\* staff page if its socket is in the room
Emitted(userId, ev) ==
    IF PageSocket("staff") \in Recipients("room", userId)
    THEN [hook EXCEPT !.inbox = Append(@, ev)]
    ELSE hook

\* setQueryData(key, old => ...) of socket.on('patient:created') and of
\* socket.on('patient:status-updated'), on the ids of the list
OnEvent(k, old, ev) ==
    IF old = NoList THEN old
    ELSE IF ev.name = "patient:created" THEN Append(old, ev.id)
    ELSE IF k = "/api/patients/active" /\ ev.status = "completed"
    THEN SelectSeq(old, LAMBDA p : p # ev.id)
    ELSE old

\* the socket of the staff page connects and socket.on('connect') re-fetches
\* the patient lists
HookConnect ==
    /\ ~sock[PageSocket("staff")].connected
    /\ sock' = [sock EXCEPT ![PageSocket("staff")] = Connection(PageUser)]
    /\ hook' = [hook EXCEPT !.fetches =
                   @ \cup {[key |-> k, body |-> NoList] :
                             k \in {x \in ListKeys : \A f \in hook.fetches : f.key # x}}]
    /\ event' = {}
    /\ UNCHANGED <<universe, winVars, sweepVars, clockVars, cacheVars, storeVars,
                   reqVars, tvJoins, client, written, pending>>

\* a list query is re-fetched (refetchQueries, invalidateQueries); a query has
\* one fetch in flight at a time
ListRefetch(k) ==
    /\ steps < MaxSteps
    /\ steps' = steps + 1
    /\ \A f \in hook.fetches : f.key # k
    /\ hook' = [hook EXCEPT !.fetches = @ \cup {[key |-> k, body |-> NoList]}]
    /\ event' = {}
    /\ UNCHANGED <<universe, winVars, sweepVars, now, cacheVars, storeVars, reqVars,
                   wsVars, written, pending>>

\* the server answers the fetch with the rows that storage holds now
ListAnswer(f) ==
    /\ f \in hook.fetches
    /\ f.body = NoList
    /\ hook' = [hook EXCEPT !.fetches =
                   (@ \ {f}) \cup {[f EXCEPT !.body = ListBody(f.key, PageUser)]}]
    /\ event' = {}
    /\ UNCHANGED <<universe, winVars, sweepVars, clockVars, cacheVars, storeVars,
                   reqVars, wsVars, written, pending>>

\* the response reaches the page and becomes the query's data
ListArrive(f) ==
    /\ f \in hook.fetches
    /\ f.body # NoList
    /\ hook' = [hook EXCEPT !.fetches = @ \ {f}, !.data[f.key] = f.body]
    /\ event' = {}
    /\ UNCHANGED <<universe, winVars, sweepVars, clockVars, cacheVars, storeVars,
                   reqVars, wsVars, written, pending>>

\* the next event reaches the page and its handler runs
HookEvent ==
    /\ hook.inbox # <<>>
    /\ hook' = [hook EXCEPT !.inbox = Tail(@),
                            !.data = [k \in ListKeys |->
                                         OnEvent(k, hook.data[k], Head(hook.inbox))]]
    /\ event' = {}
    /\ UNCHANGED <<universe, winVars, sweepVars, clockVars, cacheVars, storeVars,
                   reqVars, wsVars, written, pending>>

\* POST /api/patients: one awaited storage write, then the debounced
\* invalidation and the emit of patient:created
PostPatient(userId, e) ==
    /\ steps < MaxSteps
    /\ steps' = steps + 1
    /\ e \notin db[userId]["patients"].rows
    /\ db' = [db EXCEPT ![userId]["patients"] =
                 [rows |-> @.rows \cup {e}, ver |-> @.ver + 1]]
    /\ pat' = [pat EXCEPT ![userId][e] = Waiting]
    /\ SetCacheState(invalidateCache(CacheState, userId, NoPattern, FALSE, now))
    /\ pending' = Request(pending, userId, NoPattern, now)
    /\ hook' = Emitted(userId, [name |-> "patient:created", id |-> e,
                                status |-> "waiting"])
    /\ event' = {}
    /\ UNCHANGED <<universe, winVars, now, mutations, destroyed, reqVars, wsVars,
                   booted, isAutoCompleteRunning, runs, nextSweepAt, written>>

\* the statuses for which PATCH /api/patients/:id/status clears the patient
\* from its window
ClearsWindow(status) == status \in {"completed", "requeue", "dispensary"}

\* another request ran while these handlers were between their awaits
Interleaved(calls) == {[c EXCEPT !.alone = FALSE] : c \in calls}

\* PATCH /api/windows/:id/patient: one awaited storage write, then the
\* debounced invalidation and the emit
WindowPatient(userId, w, patientId) ==
    /\ steps < MaxSteps
    /\ windows' = [windows EXCEPT ![userId] = updateWindowPatient(@, w, patientId)]
    /\ statusCalls' = Interleaved(statusCalls)
    /\ db' = [db EXCEPT ![userId]["windows"].ver = @ + 1]
    /\ SetCacheState(invalidateCache(CacheState, userId, NoPattern, FALSE, now))
    /\ pending' = Request(pending, userId, NoPattern, now)
    /\ steps' = steps + 1
    /\ event' = {[type |-> "assign", userId |-> userId, window |-> w,
                  patientId |-> patientId, before |-> windows[userId][w]]}
    /\ UNCHANGED <<universe, hook, now, mutations, destroyed, reqVars, wsVars, sweepVars,
                   written>>

\* PATCH /api/patients/:id/status up to its first await:
\* storage.updatePatientStatus has resolved with the patient
StatusCommit(userId, id, status, windowId) ==
    /\ steps < MaxSteps
    /\ Cardinality(statusCalls) < MaxInflight
    /\ id \in db[userId]["patients"].rows
    /\ Len(pat[userId][id].trackingHistory) < MaxHistory
    /\ (windowId # 0) <=> (status = "called")
    /\ pat' = [pat EXCEPT ![userId][id] = updatePatientStatus(@, status, now)]
    /\ db' = BumpPatients({userId})
    /\ statusCalls' = Interleaved(statusCalls) \cup
                      {[userId |-> userId, id |-> id, status |-> status,
                        windowId |-> windowId, stage |-> "updated",
                        currentWindow |-> 0, alone |-> statusCalls = {}]}
    /\ steps' = steps + 1
    /\ event' = {}
    /\ UNCHANGED <<universe, hook, now, cacheVars, mutations, destroyed, reqVars, wsVars,
                   booted, isAutoCompleteRunning, runs, nextSweepAt, windows,
                   written, pending>>

\* its second await: storage.updateWindowPatient(windowId, userId, id) for a
\* call to a window, storage.getWindows and the find for a clearing status
StatusWindows(c) ==
    /\ c \in statusCalls
    /\ c.stage = "updated"
    /\ IF c.windowId # 0 /\ c.status = "called"
       THEN /\ windows' = [windows EXCEPT ![c.userId] =
                              updateWindowPatient(@, c.windowId, c.id)]
            /\ statusCalls' = Interleaved(statusCalls \ {c}) \cup
                              {[c EXCEPT !.stage = "done"]}
       ELSE LET currentWindow == IF ClearsWindow(c.status)
                                 THEN FindWindow(windows[c.userId], c.id) ELSE 0 IN
            /\ windows' = windows
            /\ statusCalls' = Interleaved(statusCalls \ {c}) \cup
                              {[c EXCEPT !.currentWindow = currentWindow,
                                         !.stage = IF currentWindow = 0
                                                   THEN "done" ELSE "found"]}
    /\ event' = {}
    /\ UNCHANGED <<universe, hook, clockVars, cacheVars, storeVars, reqVars, wsVars,
                   sweepVars, written, pending>>

\* its third await: storage.updateWindowPatient(currentWindow.id, userId,
\* undefined) on the window that the find returned
StatusClear(c) ==
    /\ c \in statusCalls
    /\ c.stage = "found"
    /\ windows' = [windows EXCEPT ![c.userId] =
                      updateWindowPatient(@, c.currentWindow, NoPatient)]
    /\ statusCalls' = Interleaved(statusCalls \ {c}) \cup {[c EXCEPT !.stage = "done"]}
    /\ event' = {[type |-> "clear", userId |-> c.userId, id |-> c.id,
                  window |-> c.currentWindow,
                  removed |-> windows[c.userId][c.currentWindow]]}
    /\ UNCHANGED <<universe, hook, clockVars, cacheVars, storeVars, reqVars, wsVars,
                   sweepVars, written, pending>>

\* the rest of the handler: invalidateCache, the emit and the response
StatusFinish(c) ==
    /\ c \in statusCalls
    /\ c.stage = "done"
    /\ statusCalls' = statusCalls \ {c}
    /\ SetCacheState(invalidateCache(CacheState, c.userId, NoPattern,
                                     isStatusTransition(c.status), now))
    /\ written' = IF isStatusTransition(c.status)
                  THEN Unwrite(written, c.userId, NoPattern) ELSE written
    /\ pending' = IF isStatusTransition(c.status)
                  THEN Settle(pending, c.userId, NoPattern)
                  ELSE Request(pending, c.userId, NoPattern, now)
    /\ hook' = Emitted(c.userId, [name |-> "patient:status-updated",
                                    id |-> c.id, status |-> c.status])
    /\ event' = {[type |-> "status", userId |-> c.userId, id |-> c.id,
                  status |-> c.status, alone |-> c.alone,
                  windows |-> windows[c.userId]]}
    /\ UNCHANGED <<universe, clockVars, storeVars, reqVars, wsVars, sweepVars,
                   windows>>

\* variant: no guard
RunGuardOff(running) == FALSE

\* runAutoComplete up to its first await: the guard and the flag
RunGuard(running) == running

Trigger ==
    /\ IF RunGuard(isAutoCompleteRunning)
       THEN UNCHANGED <<isAutoCompleteRunning, runs>>
       ELSE /\ isAutoCompleteRunning' = TRUE
            /\ runs' = runs \cup {[id |-> now, pc |-> "storage", results |-> {}]}
    /\ event' = {[type |-> "trigger", busy |-> runs # {},
                  started |-> ~RunGuard(isAutoCompleteRunning)]}

\* runAutoComplete() at startup, and setInterval(...)
Startup ==
    /\ ~booted
    /\ booted' = TRUE
    /\ nextSweepAt' = now + AUTO_COMPLETE_INTERVAL_MS
    /\ Trigger
    /\ UNCHANGED <<universe, hook, winVars, clockVars, cacheVars, storeVars, reqVars, wsVars,
                   pat, written, pending>>

\* the interval fires
IntervalFire ==
    /\ booted
    /\ now = nextSweepAt
    /\ nextSweepAt' = nextSweepAt + AUTO_COMPLETE_INTERVAL_MS
    /\ Trigger
    /\ UNCHANGED <<universe, hook, winVars, clockVars, cacheVars, storeVars, reqVars, wsVars,
                   booted, pat, written, pending>>

\* await storage.autoCompleteOldDispensaryPatients()
RunStorage(r) ==
    /\ r \in runs
    /\ r.pc = "storage"
    /\ pat' = autoCompleteOldDispensaryPatients(pat, now)
    /\ LET completed == {u \in Users : Overdue(pat[u], now) # {}} IN
       /\ db' = BumpPatients(completed)
       /\ runs' = (runs \ {r}) \cup
              {[r EXCEPT !.pc = "emit",
                         !.results = {[userId |-> u,
                                       patientIds |-> Overdue(pat[u], now)] :
                                      u \in completed}]}
    /\ event' = {[type |-> "run", by |-> "scheduler", at |-> now, tenants |-> Users,
                  before |-> pat,
                  completed |-> {<<u, e>> \in Users \X Entities :
                                    e \in Overdue(pat[u], now)}]}
    /\ UNCHANGED <<universe, hook, winVars, clockVars, cacheVars, mutations, destroyed, reqVars,
                   wsVars, booted, isAutoCompleteRunning, nextSweepAt, written,
                   pending>>

\* variant: the flag is reset only at the end of the try block
ReleaseFlagOnSuccess(threw) == threw

\* the finally of runAutoComplete: the value of the flag after it
ReleaseFlag(threw) == FALSE

\* the tenants of the results with count > 0
ResultTenants(r) == {res.userId : res \in r.results}

\* the emits of runAutoComplete, and its finally
RunFinish(r) ==
    /\ r \in runs
    /\ r.pc = "emit"
    /\ runs' = runs \ {r}
    /\ isAutoCompleteRunning' = ReleaseFlag(FALSE)
    /\ event' = {[type |-> "sweep", threw |-> FALSE, failed |-> NoUser,
                  due |-> ResultTenants(r), notified |-> ResultTenants(r),
                  events |-> [res \in r.results |-> Cardinality(res.patientIds) + 1]]}
    /\ UNCHANGED <<universe, hook, winVars, clockVars, cacheVars, storeVars, reqVars, wsVars,
                   booted, nextSweepAt, pat, written, pending>>

\* import("./storage") or storage.autoCompleteOldDispensaryPatients() rejects:
\* catch, finally
RunStorageThrow(r) ==
    /\ r \in runs
    /\ r.pc = "storage"
    /\ runs' = runs \ {r}
    /\ isAutoCompleteRunning' = ReleaseFlag(TRUE)
    /\ event' = {[type |-> "sweep", threw |-> TRUE, failed |-> NoUser,
                  due |-> {}, notified |-> {}, events |-> <<>>]}
    /\ UNCHANGED <<universe, hook, winVars, clockVars, cacheVars, storeVars, reqVars, wsVars,
                   booted, nextSweepAt, pat, written, pending>>

\* storage.getPatient(patientId) rejects for a patient of tenant userId after
\* the results of the tenants in done were emitted: the loop is left for
\* the catch, then the finally
RunEmitThrow(r, userId, done) ==
    /\ r \in runs
    /\ r.pc = "emit"
    /\ userId \in ResultTenants(r)
    /\ done \subseteq ResultTenants(r) \ {userId}
    /\ runs' = runs \ {r}
    /\ isAutoCompleteRunning' = ReleaseFlag(TRUE)
    /\ event' = {[type |-> "sweep", threw |-> TRUE, failed |-> userId,
                  due |-> ResultTenants(r), notified |-> done,
                  events |-> [res \in {x \in r.results : x.userId \in done} |->
                                 Cardinality(res.patientIds) + 1]]}
    /\ UNCHANGED <<universe, hook, winVars, clockVars, cacheVars, storeVars, reqVars, wsVars,
                   booted, nextSweepAt, pat, written, pending>>

\* POST /api/patients/auto-complete-dispensary
AutoCompleteDispensary(userId) ==
    /\ booted
    /\ windows' = [windows EXCEPT ![userId] = ClearWindows(@, Overdue(pat[userId], now))]
    /\ pat' = [pat EXCEPT ![userId] = CompleteOverdue(@, now)]
    /\ LET autoCompletedPatients == Overdue(pat[userId], now) IN
       /\ IF autoCompletedPatients # {}
          THEN /\ SetCacheState(invalidateCache(CacheState, userId, NoPattern,
                                                FALSE, now))
               /\ pending' = Request(pending, userId, NoPattern, now)
               /\ db' = BumpPatients({userId})
          ELSE UNCHANGED <<cacheVars, pending, db>>
       /\ event' = {[type |-> "run", by |-> "endpoint", at |-> now,
                     tenants |-> {userId}, before |-> pat,
                     completed |-> {userId} \X autoCompletedPatients]}
    /\ UNCHANGED <<universe, hook, statusCalls, clockVars, mutations, destroyed, reqVars, wsVars,
                   booted, isAutoCompleteRunning, runs, nextSweepAt, written>>

\* the clock of the scheduler: to the next interval mark, or to a timer due before
SweepDue == Due \cup {nextSweepAt}

SweepTick ==
    /\ booted
    /\ steps < MaxSweepTicks
    /\ \A dl \in SweepDue : dl > now
    /\ now' = CHOOSE dl \in SweepDue : \A e \in SweepDue : dl <= e
    /\ steps' = steps + 1
    /\ event' = {}
    /\ UNCHANGED <<universe, hook, winVars, cacheVars, storeVars, reqVars, wsVars, sweepVars,
                   written, pending>>

---------------------------------------------------------------------------
(* Specifications *)

InitCore ==
    /\ now = 0
    /\ steps = 0
    /\ apiCache = EmptyMap
    /\ invalidateTimers = EmptyMap
    /\ timers = {}
    /\ db = [u \in Users |-> [r \in Resources |-> [rows |-> Entities, ver |-> 0]]]
    /\ mutations = 0
    /\ gets = {}
    /\ muts = {}
    /\ sock = [s \in Sockets |-> Closed]
    /\ tvJoins = {}
    /\ client = [s \in Sockets |-> NoPage]
    /\ booted = FALSE
    /\ isAutoCompleteRunning = FALSE
    /\ runs = {}
    /\ nextSweepAt = 0
    /\ written = [u \in Users |-> [k \in Keys |-> {}]]
    /\ pending = {}
    /\ destroyed = [u \in Users |-> [r \in Resources |-> {}]]
    /\ windows = [u \in Users |-> [w \in WindowIds |-> NoPatient]]
    /\ statusCalls = {}
    /\ hook = [data |-> [k \in ListKeys |-> NoList], inbox |-> <<>>, fetches |-> {}]
    /\ event = {}

\* a patient row that entered dispensary more than an hour before the server
\* started
LeftInDispensary ==
    [status |-> "dispensary", readyForDispensary |-> TRUE,
     trackingHistory |-> <<[action |-> "dispensary",
                            timestamp |-> 0 - SIXTY_MINUTES_MS - 1]>>]

InitCommon ==
    /\ InitCore
    /\ pat = [u \in Users |-> [e \in Entities |-> Waiting]]

Init == universe = "plain" /\ InitCommon

\* the server starts over a table that holds overdue dispensary patients
InitRestart ==
    /\ universe = "plain"
    /\ InitCore
    /\ pat \in [Users -> [Entities -> {Waiting, LeftInDispensary}]]

InitCollide == universe = "collide" /\ InitCommon

\* two registered patients and the windows of the clinic, all free
InitWindows ==
    /\ universe = "plain"
    /\ InitCore
    /\ pat = [u \in Users |-> [e \in Ids |-> Waiting]]

\* the cached endpoint of the text groups
InitText == universe = "text" /\ InitCommon

\* the cached GET handlers and the cache functions, over minutes
Next ==
    \/ \E d \in LongDeltas : Tick(d)
    \/ \E h \in timers : TimerFire(h)
    \/ PeriodicCleanup
    \/ \E u \in Users, p \in Patterns, i \in BOOLEAN : InvalidateCall(u, p, i)
    \/ \E u \in Users, k \in Keys : GetStart(u, k)
    \/ \E g \in gets : GetStorage(g)
    \/ \E g \in gets : GetFinish(g)

Spec == Init /\ [][Next]_vars

\* the cached GET handlers and the mutation handlers
NextMut ==
    \/ \E d \in ShortDeltas : Tick(d)
    \/ \E h \in timers : TimerFire(h)
    \/ \E u \in Users, k \in Keys : GetStart(u, k)
    \/ \E g \in gets : GetStorage(g)
    \/ \E g \in gets : GetFinish(g)
    \/ \E u \in Users, r \in Routes, e \in Entities : MutCommit(u, r, e)
    \/ \E m \in muts : MutFinish(m, TRUE)

SpecMut == Init /\ [][NextMut]_vars

\* the cache functions called in any order, over a few debounce windows
NextInv ==
    \/ \E d \in ShortDeltas : Tick(d)
    \/ \E h \in timers : TimerFire(h)
    \/ \E u \in Users, p \in Patterns, i \in BOOLEAN : InvalidateCall(u, p, i)
    \/ \E u \in Users, k \in Keys : GetStart(u, k)
    \/ \E g \in gets : GetStorage(g)
    \/ \E g \in gets : GetFinish(g)

SpecInv == Init /\ [][NextInv]_vars

SpecCollide == InitCollide /\ [][NextInv]_vars

\* calls of invalidateCache without end, as time passes and the timers fire
NextDebounce ==
    \/ \E d \in ShortDeltas : Elapse(d)
    \/ \E h \in timers : TimerFire(h)
    \/ \E u \in Users, p \in Patterns : DebouncedCall(u, p)

\* time passes, and a timer that is due runs its callback
SpecDebounce ==
    /\ Init
    /\ [][NextDebounce]_vars
    /\ WF_vars(\E d \in ShortDeltas : Elapse(d))
    /\ WF_vars(\E h \in timers : TimerFire(h))

\* the socket server
NextWs ==
    \/ \E s \in Sockets, u \in Users \cup {NoUser} : Connect(s, u)
    \/ \E s \in Sockets : Disconnect(s)
    \/ \E s \in Sockets, ev \in ClientEvents : ClientEvent(s, ev)
    \/ \E s \in Sockets, t \in Tokens : TvJoinStart(s, t)
    \/ \E j \in tvJoins : TvJoinResolve(j)

SpecWs == Init /\ [][NextWs]_vars

\* the mutation handlers and the sockets they notify
NextNotify ==
    \/ \E s \in Sockets, u \in Users \cup {NoUser} : Connect(s, u)
    \/ \E s \in Sockets : Disconnect(s)
    \/ \E u \in Users, r \in Routes, e \in Entities : MutCommit(u, r, e)
    \/ \E m \in muts : MutFinish(m, TRUE)

SpecNotify == Init /\ [][NextNotify]_vars

\* the mutation handlers with their failures: rejection, storage error,
\* and an emit that throws
NextHttp ==
    \/ \E s \in Sockets, u \in Users : Connect(s, u)
    \/ \E u \in Users, r \in Routes, e \in Entities : MutCommit(u, r, e)
    \/ \E m \in muts, ok \in BOOLEAN : MutFinish(m, ok)
    \/ \E u \in Users, r \in Routes, e \in Ids,
          c \in {"invalid", "notfound", "storage"} : MutReject(u, r, e, c)

SpecHttp == Init /\ [][NextHttp]_vars

\* the text groups: their mutation handlers and GET /api/text-groups/active
TextGroupRoutes == {r \in Routes : r.resource = "text-groups"}

NextText ==
    \/ \E u \in Users, k \in Keys : GetStart(u, k)
    \/ \E g \in gets : GetStorage(g)
    \/ \E g \in gets : GetFinish(g)
    \/ \E u \in Users, r \in TextGroupRoutes, e \in Entities : MutCommit(u, r, e)
    \/ \E m \in muts : MutFinish(m, TRUE)

SpecText == InitText /\ [][NextText]_vars

\* a page in the tenant's room that re-fetches on the events of the patients'
\* creation and deletion
RefetchRoutes ==
    {r \in Routes : r.name \in {"POST /api/patients", "DELETE /api/patients/:id"}}

NextRefetch ==
    \/ \E s \in Sockets : Connect(s, UA)
    \/ GetStart(UA, KPatients)
    \/ \E g \in gets : GetStorage(g)
    \/ \E g \in gets : GetFinish(g)
    \/ \E r \in RefetchRoutes, e \in Ids : MutCommit(UA, r, e)
    \/ \E m \in muts : MutFinish(m, TRUE)
    \/ \E s \in Sockets : NotifiedGet(s)
    \/ \E d \in ShortDeltas : Tick(d)
    \/ \E h \in timers : TimerFire(h)

SpecRefetch == Init /\ [][NextRefetch]_vars

\* bursts of status updates on the scale of the debounce window
StatusRoutes ==
    {r \in Routes : r.name \in {"PATCH /api/patients/:id/status called",
                                "PATCH /api/patients/:id/status completed"}}
BurstDeltas == {100, 150, 300}

NextStatus ==
    \/ \E d \in BurstDeltas : Tick(d)
    \/ \E h \in timers : TimerFire(h)
    \/ \E u \in Users, r \in StatusRoutes, e \in Entities :
          CommitWithin(MaxUpdates, u, r, e)
    \/ \E m \in muts : MutFinish(m, TRUE)

SpecStatus == Init /\ [][NextStatus]_vars

\* the pages of one tenant over disconnections, with updates of its patients
PatientRoutes == {r \in Routes : r.resource = "patients" /\ r.kind = "update"}

NextPage ==
    \/ \E s \in Sockets, k \in PageKinds : PageConnect(s, k)
    \/ \E s \in Sockets : Disconnect(s)
    \/ \E j \in tvJoins : TvJoinResolve(j)
    \/ \E r \in PatientRoutes, e \in Entities : MutCommit(PageUser, r, e)
    \/ \E m \in muts : MutFinish(m, TRUE)
    \/ \E s \in Sockets : PageNotified(s)
    \/ \E s \in Sockets : PagePoll(s)
    \/ \E s \in Sockets : PageFetch(s)

\* a requested re-fetch is answered, and the interval of a query keeps firing
SpecPage ==
    /\ Init
    /\ [][NextPage]_vars
    /\ \A s \in Sockets : WF_vars(PagePoll(s)) /\ WF_vars(PageFetch(s))

\* the auto-complete scheduler and endpoint, over an hour
NextSweep ==
    \/ Startup
    \/ IntervalFire
    \/ SweepTick
    \/ \E r \in runs : RunStorage(r)
    \/ \E r \in runs : RunFinish(r)
    \/ \E r \in runs : RunStorageThrow(r)
    \/ \E r \in runs, u \in Users, done \in SUBSET Users : RunEmitThrow(r, u, done)
    \/ \E u \in Users, e \in Entities : EnterDispensary(u, e)
    \/ \E u \in Users : AutoCompleteDispensary(u)
    \/ \E h \in timers : TimerFire(h)

SpecSweep == Init /\ [][NextSweep]_vars

\* one tenant's patients moving between dispensary and requeue, with the
\* scheduler and the endpoint, over an hour
NextStay ==
    \/ Startup
    \/ IntervalFire
    \/ SweepTick
    \/ \E r \in runs : RunStorage(r)
    \/ \E r \in runs : RunFinish(r)
    \/ \E e \in Entities, st \in {"dispensary", "requeue"} : StatusUpdate(UA, e, st)
    \/ AutoCompleteDispensary(UA)
    \/ \E h \in timers : TimerFire(h)

SpecStay == Init /\ [][NextStay]_vars

\* the status handler, split at its awaits, next to the window assignments
NextWindows ==
    \/ \E w \in WindowIds, p \in Ids \cup {NoPatient} : WindowPatient(UA, w, p)
    \/ \E id \in Ids, w \in WindowIds : StatusCommit(UA, id, "called", w)
    \/ \E id \in Ids, st \in {"completed", "requeue", "dispensary"} :
          StatusCommit(UA, id, st, 0)
    \/ \E c \in statusCalls : StatusWindows(c)
    \/ \E c \in statusCalls : StatusClear(c)
    \/ \E c \in statusCalls : StatusFinish(c)

SpecWindows == InitWindows /\ [][NextWindows]_vars

\* the staff page's patient lists next to the requests that change patients
NextLists ==
    \/ HookConnect
    \/ \E k \in ListKeys : ListRefetch(k)
    \/ \E f \in hook.fetches : ListAnswer(f)
    \/ \E f \in hook.fetches : ListArrive(f)
    \/ HookEvent
    \/ \E e \in Ids : PostPatient(PageUser, e)
    \/ \E id \in Ids, st \in {"completed", "dispensary"} :
          StatusCommit(PageUser, id, st, 0)
    \/ \E c \in statusCalls : StatusWindows(c)
    \/ \E c \in statusCalls : StatusFinish(c)

SpecLists == InitWindows /\ [][NextLists]_vars

\* the sweep at startup after a restart, and the cached GET of the patients
NextRestart ==
    \/ Startup
    \/ \E r \in runs : RunStorage(r)
    \/ \E r \in runs : RunFinish(r)
    \/ \E u \in Users : GetStart(u, KPatients)
    \/ \E g \in gets : GetStorage(g)
    \/ \E g \in gets : GetFinish(g)

SpecRestart == InitRestart /\ [][NextRestart]_vars

---------------------------------------------------------------------------
(* Properties *)

\* the resource key of a cache key written by setCache(key, userId)
ResourceKey(cacheKey, userId) == SubSeq(cacheKey, Len(userId) + 2, Len(cacheKey))

Reads == {e \in event : e.type = "read"}
Fires == {e \in event : e.type = "fire"}
Immediates == {e \in event : e.type = "immediate"}
Emits == {e \in event : e.type = "mutation"}
Responses == {e \in event : e.type = "response"}
PageConnects == {e \in event : e.type = "connect"}
PageFetches == {e \in event : e.type = "fetch"}
ClientEmits == {e \in event : e.type = "client"}

\* C1: a payload that getCached returns to a tenant was stored by setCache
\* under that same tenant, also when the cache keys `${userId}:${key}` of two
\* tenants are the same string.
TenantIsolation ==
    \A e \in Reads : e.hit => e.data.owner = e.userId

\* tenant "a:b" reads key "c" while the entry "a:b:c" that tenant "a" stored
\* under key "b:c" is the only write to that cache key, and gets a miss
CollidingRead ==
    \E e \in Reads :
        /\ universe = "collide"
        /\ e.userId = UAB /\ e.key = KC /\ ~e.hit
        /\ written[UA][KBC] # {}
        /\ written[UAB][KC] = {}

\* C2: an event emitted for a mutation of tenant A reaches only sockets that
\* are in room clinic:A.
EmitOnlyToTenantRoom ==
    \A e \in Emits : e.recipients \subseteq e.members

\* a route that emits with globalIo.emit reached a socket outside room clinic:A
BroadcastLeaks ==
    \E e \in Emits : e.emit = "all" /\ e.recipients \ e.members # {}

\* C3: a client event is rebroadcast into the room of the tenant the socket
\* authenticated as, and a socket without a session gets an error and
\* reaches nobody.
ClientWritesOwnRoom ==
    \A e \in ClientEmits :
        IF e.auth = NoUser
        THEN e.error /\ e.recipients = {}
        ELSE ~e.error /\ e.room = ClinicRoom(e.auth)

\* a socket authenticated as one tenant rebroadcast into the room of another
TvJoinSwitchedRoom ==
    \E e \in ClientEmits :
        e.auth # NoUser /\ ~e.error /\ e.room # ClinicRoom(e.auth)

\* C4: while a debounced request for (tenant, pattern) is outstanding exactly
\* one timer is armed for it, due one debounce window after the last call;
\* the clear runs at that time and leaves no timer for the pair behind.
DebounceOneClear ==
    /\ \A q \in pending :
          \E h \in timers :
              /\ h.userId = q.userId /\ h.pattern = q.pattern
              /\ h.deadline = q.lastCall + INVALIDATE_DEBOUNCE_MS
              /\ h.deadline >= now
              /\ \A g \in timers :
                    g.userId = q.userId /\ g.pattern = q.pattern => g = h
    /\ \A h \in timers :
          \E q \in pending : q.userId = h.userId /\ q.pattern = h.pattern
    /\ \A e \in Fires :
          /\ e.at = e.lastCall + INVALIDATE_DEBOUNCE_MS
          /\ \A h \in timers : ~(h.userId = e.userId /\ h.pattern = e.pattern)

\* two calls 100 ms apart were answered by the one clear, 300 ms after the second
BurstCollapsed ==
    \E e \in Fires : e.calls >= 2 /\ e.lastCall = 100 /\ e.at = 400

\* C5: when an immediate invalidateCache(tenant, pattern) has returned, no
\* entry of the tenant whose resource key matches is in the cache (none at
\* all if the pattern is omitted) and no timer for (tenant, pattern) is armed.
ImmediateClears ==
    \A e \in Immediates :
        /\ \A ck \in DOMAIN apiCache :
              apiCache[ck].userId = e.userId =>
                  /\ e.pattern # NoPattern
                  /\ ~Includes(ResourceKey(ck, e.userId), e.pattern)
        /\ \A h \in timers : ~(h.userId = e.userId /\ h.pattern = e.pattern)
        /\ TimerKey(e.userId, e.pattern) \notin DOMAIN invalidateTimers

\* an immediate call without pattern removed an entry and cancelled a timer
ImmediateOverPending ==
    \E e \in Immediates : e.pattern = NoPattern /\ e.cancelled /\ e.removed > 0

\* C6: a cached read never returns rows that a finished destructive
\* mutation of the tenant removed.
NoStaleDestroyed ==
    \A e \in Reads : e.hit => ~e.stale

\* a cached read returned rows a finished destructive mutation had removed
StaleAfterDelete ==
    \E e \in Reads : e.hit /\ e.stale

\* C7: a finished mutation handler has emitted exactly one event.
ExactlyOneEvent ==
    \A e \in Emits : e.events = 1

\* a mutation handler finished without any emit
SilentMutation ==
    \E e \in Emits : e.events = 0 /\ e.invalidate = "immediate"

Triggers == {e \in event : e.type = "trigger"}
Runs == {e \in event : e.type = "run"}

\* C9: at most one execution of runAutoComplete is in progress, and a
\* trigger starts one exactly if none is in progress: a trigger that finds
\* one in progress starts nothing.
SingleFlight ==
    /\ Cardinality(runs) <= 1
    /\ \A e \in Triggers : e.started <=> ~e.busy

\* an interval tick arrived while a sweep was in progress and was skipped
SkippedTrigger ==
    \E e \in Triggers : e.busy /\ ~e.started /\ now > 0 /\ Cardinality(runs) = 1

\* when the patient row entered the dispensary state
EnteredAt(patient) ==
    patient.trackingHistory[Len(patient.trackingHistory)].timestamp

Sweeps == {e \in event : e.type = "sweep"}

\* C11: when a sweep ends, every tenant with a force-completed patient was
\* notified, except at most the one whose processing raised the error.
SweepErrorIsolated ==
    \A e \in Sweeps : e.due \ e.notified \subseteq {e.failed}

\* an error for one tenant left another tenant of the same sweep without its events
SweepAbandonedTenant ==
    \E e \in Sweeps : e.threw /\ \E u \in e.due \ e.notified : u # e.failed

\* C12: whenever no sweep is in progress isAutoCompleteRunning is false, after
\* a sweep that threw as after one that succeeded, and a trigger that finds
\* no sweep in progress starts one.
FlagReleased ==
    /\ runs = {} => ~isAutoCompleteRunning
    /\ \A e \in Triggers : ~e.busy => e.started

\* a sweep ended in its catch and the flag is false
ThrownSweepReleased ==
    \E e \in Sweeps : e.threw /\ e.failed # NoUser /\ runs = {} /\ ~isAutoCompleteRunning

\* C13: once a sweep that force-completed a patient of the tenant has ended,
\* no cached read of the tenant returns a payload that was written before
\* the completion.
SweepInvalidatesCache ==
    \A e \in Reads :
        (e.hit /\ runs = {}) =>
            \A x \in written[e.userId][e.key] :
                x.seq = db[e.userId][ResourceOf(e.key)].ver

\* after a sweep completed a patient, a read hit a payload written before it
StaleAfterSweep ==
    \E e \in Reads :
        /\ e.hit /\ runs = {} /\ ~isAutoCompleteRunning
        /\ pat[e.userId][1].status = "completed"
        /\ \E x \in written[e.userId][e.key] :
              x.seq < db[e.userId][ResourceOf(e.key)].ver

\* what a clear for (tenant, pattern) is to leave of the entries before it:
\* all but the tenant's entries whose resource key contains the pattern
KeptByPattern(before, userId, pattern) ==
    {x \in before :
        ~(/\ x.userId = userId
          /\ (pattern = NoPattern
              \/ Includes(ResourceKey(x.key, x.userId), pattern)))}

EmitFailureSwallowed ==
    \A e \in Emits :
        e.cause = "emit" =>
            /\ e.status = 200
            /\ e.invalidate = "immediate" =>
                  \A ck \in DOMAIN apiCache : apiCache[ck].userId # e.userId

\* a handler whose emit threw answered 500 after its immediate invalidation
EmitFailureAnswered500 ==
    \E e \in Emits :
        /\ e.cause = "emit" /\ e.status = 500 /\ e.invalidate = "immediate"
        /\ \A ck \in DOMAIN apiCache : apiCache[ck].userId # e.userId

\* C16: a rejected payload and a row that is not found are answered with a
\* 4xx status, a storage failure with a 5xx status.
OutcomeByCause ==
    \A e \in Responses :
        /\ e.cause \in {"invalid", "notfound"} => (400 <= e.status /\ e.status < 500)
        /\ e.cause = "storage" => (500 <= e.status /\ e.status < 600)

\* a storage failure of POST /api/patients was answered 400
StorageFailureAs400 ==
    \E e \in Responses :
        e.cause = "storage" /\ e.route = "POST /api/patients" /\ e.status = 400

MemberOnlyByAuth ==
    /\ \A s \in Sockets : sock[s].rooms = {}
    /\ [][\A s \in Sockets, u \in Users :
            (ClinicRoom(u) \in sock'[s].rooms /\ ClinicRoom(u) \notin sock[s].rooms)
            => \/ ~sock[s].connected /\ sock'[s].userId = u
               \/ \E j \in tvJoins \ tvJoins' :
                     j.socket = s /\ resolveByTvIdentifier(j.token) = u]_vars

\* a connection without session is in a tenant's room by its token, while
\* another without session is in none
JoinedByToken ==
    \E s, t \in Sockets :
        /\ sock[s].connected /\ sock[s].userId = NoUser
        /\ sock[s].rooms = {ClinicRoom(UA)}
        /\ sock[t].connected /\ sock[t].userId = NoUser /\ sock[t].rooms = {}

\* an invalidation for the tenant is still to take effect: a mutation handler
\* has committed and not yet called invalidateCache, or a debounced clear of
\* the tenant is armed
InvalidationOutstanding(userId) ==
    \/ \E m \in muts : m.userId = userId
    \/ \E q \in pending : q.userId = userId

\* C19: a cached read returns a payload older than the tenant's table only
\* while the invalidation that follows the mutation has not yet taken effect
\* (and the entry is younger than its TTL); afterwards reads come from storage.
StalenessBounded ==
    \A e \in Reads :
        (e.hit /\ e.data.ver < db[e.userId][ResourceOf(e.key)].ver)
            => InvalidationOutstanding(e.userId)

\* a payload older than the table was returned from the cache after every
\* invalidation of the tenant had taken effect
StaleAfterInvalidation ==
    \E e \in Reads :
        /\ e.hit
        /\ e.data.ver < db[e.userId][ResourceOf(e.key)].ver
        /\ ~InvalidationOutstanding(e.userId)
        /\ \A x \in written[e.userId][e.key] : x.seq > e.data.ver

\* the tenant has exactly one armed timer, due one debounce window from now
OneTimerAhead(userId) ==
    \E h \in timers :
        /\ h.userId = userId /\ h.deadline = now + INVALIDATE_DEBOUNCE_MS
        /\ \A g \in timers : g.userId = userId => g = h

\* C20 as stated: every status update, whatever its target status, leaves
\* the tenant's one clear armed a debounce window after it, so that a burst
\* ends in one clear about 300 ms after its last update.
StatusUpdatesDebounced ==
    /\ \A e \in Emits :
          e.route \in {r.name : r \in StatusRoutes} => OneTimerAhead(e.userId)
    /\ \A e \in Fires : e.at = e.lastCall + INVALIDATE_DEBOUNCE_MS

\* C20: a status update to a status other than completed, requeue and
\* dispensary leaves the tenant's one clear armed a debounce window after
\* it, so a burst of such updates ends in one clear about 300 ms after the
\* last; an update to one of those three clears at once and leaves no timer.
StatusBurstOneClear ==
    /\ \A e \in Emits :
          e.route = "PATCH /api/patients/:id/status called"
              => OneTimerAhead(e.userId)
    /\ \A e \in Emits :
          e.route = "PATCH /api/patients/:id/status completed"
              => \A h \in timers : h.userId # e.userId
    /\ \A e \in Fires : e.at = e.lastCall + INVALIDATE_DEBOUNCE_MS

\* three updates to 'called' at 0, 100 and 250 ms were answered by one clear
\* at 550 ms
ThreeUpdatesOneClear ==
    \E e \in Fires : e.calls = 3 /\ e.lastCall = 250 /\ e.at = 550

\* C21: the timer map holds, per key, the one timer that is armed for it:
\* every key maps to a timer that is still armed, and every armed timer is
\* the one its key maps to, so no key maps to a fired or cancelled timer and
\* no two timers are pending for one key.
TimerMapExact ==
    /\ \A k \in DOMAIN invalidateTimers :
          invalidateTimers[k] \in timers /\ invalidateTimers[k].key = k
    /\ \A h \in timers :
          h.key \in DOMAIN invalidateTimers /\ invalidateTimers[h.key] = h
    /\ \A e \in Fires :
          TimerKey(e.userId, e.pattern) \notin DOMAIN invalidateTimers

\* a second request replaced the timer of its key, and that timer has fired
ReplacedTimerFired ==
    \E e \in Fires : e.calls >= 2 /\ invalidateTimers = EmptyMap /\ timers = {}

\* C22: every finished mutation of cached tenant data has called
\* invalidateCache, so a cached read returns an entry written before a
\* mutation only while the invalidation of a mutation is still to take effect.
MutationInvalidates ==
    /\ \A e \in Emits : e.invalidate # "none"
    /\ \A e \in Reads :
          e.hit => \A x \in written[e.userId][e.key] :
                      x.seq < db[e.userId][ResourceOf(e.key)].ver
                          => InvalidationOutstanding(e.userId)

\* GET /api/text-groups/active returned the entry written before a finished
\* update of the text groups
StaleTextGroups ==
    \E e \in Reads :
        /\ e.hit /\ e.key = KTextGroups
        /\ ~InvalidationOutstanding(e.userId)
        /\ \E x \in written[e.userId][e.key] :
              x.seq < db[e.userId]["text-groups"].ver

CountsFromCurrentStay ==
    \A e \in Runs : \A <<u, x>> \in e.completed :
        (e.by = "endpoint" /\ e.before[u][x].status = "dispensary")
            => e.at >= EnteredAt(e.before[u][x]) + SIXTY_MINUTES_MS

\* a patient back in dispensary for less than the threshold was completed,
\* counted from its first stay
CompletedFromFirstStay ==
    \E e \in Runs : \E <<u, x>> \in e.completed :
        /\ e.by = "endpoint"
        /\ e.before[u][x].status = "dispensary"
        /\ Len(e.before[u][x].trackingHistory) = 3
        /\ e.at < EnteredAt(e.before[u][x]) + SIXTY_MINUTES_MS
        /\ e.at > e.before[u][x].trackingHistory[1].timestamp + SIXTY_MINUTES_MS

\* C25: the re-fetch a page sends on receiving the event of a mutation is
\* never answered from a cache entry written before that mutation.
NotifiedRefetchFresh ==
    \A e \in Reads :
        (e.cause = "notified" /\ e.hit)
            => \A x \in written[e.userId][e.key] :
                  x.seq = db[e.userId][ResourceOf(e.key)].ver

\* the re-fetch on patient:created was answered from the entry written
\* before the creation, the debounced clear still being armed
StaleNotifiedRefetch ==
    \E e \in Reads :
        /\ e.cause = "notified" /\ e.hit
        /\ \E q \in pending : q.userId = e.userId
        /\ \E x \in written[e.userId][e.key] :
              x.seq < db[e.userId][ResourceOf(e.key)].ver


\* the windows cleared and the status updates finished by the step just taken
Clears == {e \in event : e.type = "clear"}
StatusDone == {e \in event : e.type = "status"}

\* C26: the clear that the status change of a patient makes never removes the
\* assignment of another patient from a window, whatever request ran between
\* the handler's awaits
ClearsOnlyOwnPatient == \A e \in Clears : e.removed \in {e.id, NoPatient}

\* the status change of one patient has removed another patient from a window
OtherPatientRemoved == \E e \in Clears : e.removed \notin {e.id, NoPatient}

\* C27: when a status update of a patient to completed, requeue or dispensary
\* that no other request interleaved with has finished, no window of the
\* tenant has that patient as its current patient
NoWindowKeepsPatient ==
    \A e \in StatusDone :
        e.alone /\ ClearsWindow(e.status) =>
            \A w \in DOMAIN e.windows : e.windows[w] # e.id

\* such an update has finished and a window still holds the patient
WindowKeepsPatient ==
    \E e \in StatusDone :
        /\ e.alone
        /\ ClearsWindow(e.status)
        /\ \E w \in DOMAIN e.windows : e.windows[w] = e.id


ListsWithoutDuplicates ==
    \A k \in ListKeys :
        hook.data[k] # NoList =>
            \A i, j \in 1..Len(hook.data[k]) :
                i # j => hook.data[k][i] # hook.data[k][j]

\* a list of the page shows one patient twice
PatientListedTwice ==
    \E k \in ListKeys :
        /\ hook.data[k] # NoList
        /\ \E i, j \in 1..Len(hook.data[k]) :
              i # j /\ hook.data[k][i] = hook.data[k][j]


\* C30: every non-immediate request is eventually followed by a clear for its
\* tenant and pattern, also when further non-immediate requests for the same
\* key keep arriving less than one debounce window apart
EveryRequestCleared ==
    \A u \in {UA, UB}, p \in {NoPattern, KWindows} :
        (\E r \in pending : r.userId = u /\ r.pattern = p)
            ~> (\E e \in Fires \cup Immediates : e.userId = u /\ e.pattern = p)

\* a request is outstanding whose timer has been re-armed by later requests
\* MaxBurst times or more
ClearPostponed ==
    \E r \in pending, h \in timers :
        /\ h.userId = r.userId
        /\ h.pattern = r.pattern
        /\ h.calls >= MaxBurst

=============================================================================
